---- MODULE Spec2Model ----
(***************************************************************************)
(* Model of the authorizer credential lifecycle: the Signup resolver (in   *)
(* its memorystore and envstore revisions) running as concurrent requests  *)
(* against the cassandradb user provider (AddUser, DeleteUser, ListUsers,  *)
(* GetUserByEmail), with the verification-request table, the session audit *)
(* table, the in-memory session store and the detached goroutines.         *)
(***************************************************************************)
EXTENDS Integers, Sequences, FiniteSets, TLC

\* ------------------------------------------------------------------ bounds
\* ids uuid.New() hands out to user rows
MaxUsers == 2
\* ids handed out to session rows
MaxSessions == 2
\* the clock and the access token expiry range over 0..MaxTime
MaxTime == 1
\* the ListUsers specification: rows in the table, limit and offset
MaxListUsers == 5
MaxLimit == 3
MaxOffset == 3

\* ------------------------------------------------------------------ values
Calls == {"c1", "c2"}
Builds == {"memorystore", "envstore"}
Times == 0..MaxTime

\* strings are sequences of atoms; "," is the separator atom
Comma == ","
EmptyString == <<>>

EnvKeyDisableSignUp == "DISABLE_SIGN_UP"
EnvKeyDisableBasicAuthentication == "DISABLE_BASIC_AUTHENTICATION"
EnvKeyDisableEmailVerification == "DISABLE_EMAIL_VERIFICATION"
FlagKeys == {EnvKeyDisableSignUp, EnvKeyDisableBasicAuthentication, EnvKeyDisableEmailVerification}

\* the configured role lists, comma joined as the env store keeps them
EnvRoles == <<"user", Comma, "admin">>
EnvDefaultRoles == <<"user">>

AuthRecipeMethodBasicAuth == "basic_auth"
VerificationTypeBasicAuthSignup == "basic_auth_signup"

\* strings.ToLower on the e-mail addresses the requests carry
ToLower(s) ==
    CASE s = "A@x.io" -> "a@x.io"
      [] s = "B@x.io" -> "b@x.io"
      [] OTHER -> s

\* validators.IsValidEmail / utils.IsValidEmail: format validation
IsValidEmail(s) == s \in {"a@x.io", "b@x.io"}

\* validators.IsValidPassword / utils.IsValidPassword: complexity policy
IsValidPassword(p) == p = "Abc123!@"

EmailInputs == {"a@x.io", "A@x.io", "nobody"}
PasswordInputs == {"Abc123!@", "abc"}
RoleInputs == {<<>>, <<"user">>, <<"root">>}

\* requests for several roles, in either order, allowed and not
AllRoleInputs ==
    RoleInputs \cup {<<"admin">>, <<"user", "admin">>, <<"admin", "user">>, <<"user", "root">>}

\* the fields of model.SignUpInput the first step of Signup reads; Roles and
\* Scope are drawn where the resolver first reads them
SignUpInput ==
    [Email : EmailInputs, Password : PasswordInputs, ConfirmPassword : PasswordInputs]

\* strings.Split(s, ","): the pieces between separators; one empty piece for ""
RECURSIVE Split(_)
Split(s) ==
    IF \A i \in 1..Len(s) : s[i] # Comma
    THEN <<s>>
    ELSE LET k == CHOOSE i \in 1..Len(s) : s[i] = Comma /\ \A j \in 1..(i - 1) : s[j] # Comma
         IN  <<SubSeq(s, 1, k - 1)>> \o Split(SubSeq(s, k + 1, Len(s)))

\* strings.Join(elems, ",")
RECURSIVE Join(_)
Join(elems) ==
    IF Len(elems) = 0 THEN EmptyString
    ELSE IF Len(elems) = 1 THEN elems[1]
    ELSE elems[1] \o <<Comma>> \o Join(Tail(elems))

\* a role name as a one-atom string
RoleStrings(roles) == [i \in 1..Len(roles) |-> <<roles[i]>>]

\* validators.IsValidRoles(userRoles, roles): every requested role is allowed
IsValidRoles(userRoles, roles) ==
    \A i \in 1..Len(userRoles) : \E j \in 1..Len(roles) : roles[j] = userRoles[i]

\* ------------------------------------------------------------------ state
VARIABLES
    build,        \* which revision of the Signup resolver this server runs
    env,          \* the env store: the boolean feature flags
    users,        \* the users table, in the order a table scan returns its rows
    nextID,       \* the next id uuid.New() returns for a user row
    vreqs,        \* the verification_requests table
    sessions,     \* the sessions table (durable audit rows)
    nextSession,  \* the next id a session row gets
    store,        \* the in-memory session store (memorystore / sessionstore)
    tasks,        \* the detached goroutines that have not run yet
    events,       \* the notification events handed to the webhook collaborator
    calls,        \* the Signup requests in flight: locals and position
    ret           \* the call the last step returned from, with what it returned

vars == <<build, env, users, nextID, vreqs, sessions, nextSession, store, tasks, events, calls, ret>>

\* models.User{}: the zero value (ID "" is 0, EmailVerifiedAt nil is FALSE)
NoUser == [id |-> 0, email |-> "", verified |-> FALSE, roles |-> EmptyString]

Range(f) == {f[i] : i \in DOMAIN f}

InsertAt(rows, row, pos) == SubSeq(rows, 1, pos - 1) \o <<row>> \o SubSeq(rows, pos, Len(rows))

RECURSIVE Filter(_, _)
Filter(rows, keep) ==
    IF rows = <<>> THEN <<>>
    ELSE (IF Head(rows) \in keep THEN <<Head(rows)>> ELSE <<>>) \o Filter(Tail(rows), keep)

Max(a, b) == IF a >= b THEN a ELSE b
Min(a, b) == IF a <= b THEN a ELSE b

\* ------------------------------------------------------- the env store reads
\* memorystore.Provider.GetBoolStoreEnvVariable: (value, err); the read can fail
GetBoolStoreEnvVariable(key, fails) ==
    IF fails THEN [val |-> FALSE, err |-> TRUE] ELSE [val |-> env[key], err |-> FALSE]

\* memorystore.Provider.GetStringStoreEnvVariable: (value, err)
GetStringStoreEnvVariable(value, fails) ==
    IF fails THEN [val |-> EmptyString, err |-> TRUE] ELSE [val |-> value, err |-> FALSE]

\* the outcomes a flag read can have in this build: envstore reads return no error
ReadFails == IF build = "memorystore" THEN BOOLEAN ELSE {FALSE}

\* ------------------------------------------------- cassandradb user provider
\* GetUserByEmail: SELECT ... WHERE email = ? LIMIT 1; Scan returns an error when
\* no row matches and when the query fails, and the zero user with it
GetUserByEmail(rows, email, fails) ==
    LET hit == {i \in 1..Len(rows) : rows[i].email = email}
    IN  IF fails THEN [user |-> NoUser, err |-> "unavailable"]
        ELSE IF hit = {} THEN [user |-> NoUser, err |-> "not found"]
        ELSE [user |-> rows[CHOOSE i \in hit : \A j \in hit : i <= j], err |-> ""]

\* INSERT INTO users ... IF NOT EXISTS: a lightweight transaction on the primary
\* key id; a row with that id leaves the table as it is
InsertIfNotExists(rows, row, pos) ==
    IF \E i \in 1..Len(rows) : rows[i].id = row.id THEN rows ELSE InsertAt(rows, row, pos)

\* AddUser(user): the id when absent, the default roles when empty, then the
\* conditional insert; Exec returns an error only when the query fails
AddUser(rows, user, fresh, pos, rolesFail, execFails) ==
    LET u1 == IF user.id = 0 THEN [user EXCEPT !.id = fresh] ELSE user
        dr == GetStringStoreEnvVariable(EnvDefaultRoles, rolesFail)
        u2 == IF u1.roles = EmptyString /\ ~dr.err THEN [u1 EXCEPT !.roles = dr.val] ELSE u1
    IN  IF u1.roles = EmptyString /\ dr.err
        THEN [user |-> u1, err |-> "unavailable", rows |-> rows]
        ELSE IF execFails
        THEN [user |-> u2, err |-> "unavailable", rows |-> rows]
        ELSE [user |-> u2, err |-> "", rows |-> InsertIfNotExists(rows, u2, pos)]

\* UpdateUser(user): UPDATE users SET ... WHERE id = ?, run with Exec. The
\* statement carries no IF EXISTS: on an id the table does not hold it writes
\* the row, as every Cassandra UPDATE does
UpdateUser(rows, user, pos, execFails) ==
    IF execFails THEN [user |-> user, err |-> "unavailable", rows |-> rows]
    ELSE IF \E i \in 1..Len(rows) : rows[i].id = user.id
    THEN [user |-> user, err |-> "",
          rows |-> [i \in 1..Len(rows) |-> IF rows[i].id = user.id THEN user ELSE rows[i]]]
    ELSE [user |-> user, err |-> "", rows |-> InsertAt(rows, user, pos)]

\* the session ids DeleteUser's SELECT id ... WHERE user_id = ? finds
SessionIDsOf(sess, uid) == {s.id : s \in {t \in sess : t.user_id = uid}}

\* DELETE FROM sessions WHERE id IN (ids)
DeleteSessionsIn(sess, ids) == {s \in sess : s.id \notin ids}

\* DELETE FROM users WHERE id = ?
DeleteUserRow(rows, uid) == Filter(rows, {r \in Range(rows) : r.id # uid})

DeleteOutcomes == {"ok", "deleteUserErr", "scanErr", "iterErr", "deleteSessionsErr"}

\* DeleteUser(user): the user row first, then the session ids are enumerated
\* and deleted. outcome says which query fails, scanned the ids the loop got:
\*   deleteUserErr     the first Exec fails: return err
\*   scanErr           scanner.Scan fails on a row: return err
\*   iterErr           the SELECT fails under scanner.Next(), which then returns
\*                     false; scanner.Err() is not read, the loop just ends
\*   deleteSessionsErr the last Exec fails: return err
DeleteUser(rows, sess, user, outcome, scanned) ==
    IF outcome = "deleteUserErr"
    THEN [rows |-> rows, sessions |-> sess, err |-> "unavailable"]
    ELSE IF outcome \in {"scanErr", "deleteSessionsErr"}
    THEN [rows |-> DeleteUserRow(rows, user.id), sessions |-> sess, err |-> "unavailable"]
    ELSE [rows |-> DeleteUserRow(rows, user.id),
          sessions |-> DeleteSessionsIn(sess, scanned), err |-> ""]

\* what the enumeration loop can have collected under each outcome
Scanned(sess, uid, outcome) ==
    IF outcome = "iterErr"
    THEN {S \in SUBSET SessionIDsOf(sess, uid) : S # SessionIDsOf(sess, uid)}
    ELSE {SessionIDsOf(sess, uid)}

\* the page fetched with LIMIT limit, the offset left out of the fetch; C9 tells
\* it from ListUsers
ListUsersLimitOnly(rows, limit, offset) ==
    LET fetched == SubSeq(rows, 1, Min(limit, Len(rows)))
        kept == {i \in 1..Len(fetched) : i - 1 >= offset}
    IN  [Users |-> [k \in 1..Cardinality(kept) |-> fetched[offset + k]],
         Total |-> Len(rows), Limit |-> limit, Offset |-> offset]

\* ListUsers(pagination): SELECT ... LIMIT limit+offset, the rows before offset
\* skipped by the counter, the total from SELECT COUNT(*). A LIMIT of 0 gives
\* the loop no row, as the empty SubSeq does
ListUsers(rows, limit, offset) ==
    LET fetched == SubSeq(rows, 1, Min(limit + offset, Len(rows)))
        kept == {i \in 1..Len(fetched) : i - 1 >= offset}
    IN  [Users |-> [k \in 1..Cardinality(kept) |-> fetched[offset + k]],
         Total |-> Len(rows), Limit |-> limit, Offset |-> offset]

\* ---------------------------------------------------------- Signup resolver
\* a nil *model.AuthResponse
NilResponse ==
    [nil |-> TRUE, Message |-> "", AccessToken |-> <<>>, RefreshToken |-> <<>>,
     ExpiresIn |-> 0, User |-> NoUser, Cookie |-> <<>>]

\* a request slot with no request in it. rdSignup, rdBasic and rdEvd say how
\* the three flag reads went, cfg holds the values the env store had for the
\* verification flag when the resolver read it, at the step the request
\* returned, regFailed the registrations of the session store that failed
IdleCall ==
    [pc |-> "idle", email |-> "", rdSignup |-> "unread", rdBasic |-> "unread",
     roles |-> <<>>, user |-> NoUser, cfg |-> <<>>, rdEvd |-> "unread",
     at |-> "", expiresAt |-> 0, now |-> 0, regFailed |-> {}, err |-> "", res |-> NilResponse]

\* no call returned in the last step
NoRet ==
    [op |-> "", call |-> IdleCall, user |-> NoUser, outcome |-> "", err |-> "",
     userGone |-> FALSE, had |-> {}, left |-> {}, othersSame |-> TRUE,
     applied |-> FALSE, taken |-> FALSE, existed |-> FALSE, grew |-> FALSE, cancelled |-> FALSE,
     page |-> <<>>, total |-> 0, limit |-> 0, offset |-> 0]

\* how a flag read went, for the record
ReadAs(r) == IF r.err THEN "err" ELSE IF r.val THEN "true" ELSE "false"

\* the gate that lets a failed read through as "enabled"; C1 tells it from
\* isSignupDisabled
IsSignupDisabledFailOpen(r) == r.val

\* isSignupDisabled: a failed read of the flag counts as disabled
IsSignupDisabled(r) == IF r.err THEN TRUE ELSE r.val

\* isBasicAuthDisabled: a failed read of the flag counts as disabled
IsBasicAuthDisabled(r) == IF r.err THEN TRUE ELSE r.val

\* isEmailVerificationDisabled: a failed read of the flag counts as disabled
IsEmailVerificationDisabled(r) == IF r.err THEN TRUE ELSE r.val

\* an error return that hands a response object back with the error; C14 tells
\* it from Rejected
RejectedWithResponse(call, err) ==
    [call EXCEPT !.at = call.pc, !.pc = "Done", !.err = err,
                 !.res = [NilResponse EXCEPT !.nil = FALSE, !.User = call.user]]

\* return res, err: res is the variable declared nil and assigned only where
\* a success response is built
Rejected(call, err) ==
    [call EXCEPT !.at = call.pc, !.pc = "Done", !.err = err]

\* return res, nil
Returned(call, res) ==
    [call EXCEPT !.at = call.pc, !.pc = "Done", !.err = "", !.res = res]

\* the gin context, the flag gates and the input validation, up to the
\* lower-cased e-mail
ValidateInput(params, ginFails, r1, r2) ==
    LET c0 == [IdleCall EXCEPT !.pc = "Validate", !.rdSignup = ReadAs(r1)]
        c1 == [c0 EXCEPT !.rdBasic = ReadAs(r2)]
        email == ToLower(params.Email)
    IN  IF ginFails THEN Rejected([IdleCall EXCEPT !.pc = "Validate"], "gin context")
        ELSE IF IsSignupDisabled(r1) THEN Rejected(c0, "signup is disabled for this instance")
        ELSE IF IsBasicAuthDisabled(r2)
        THEN Rejected(c1, "basic authentication is disabled for this instance")
        ELSE IF params.ConfirmPassword # params.Password
        THEN Rejected(c1, "password and confirm password does not match")
        ELSE IF ~IsValidPassword(params.Password) THEN Rejected(c1, "invalid password")
        ELSE IF ~IsValidEmail(email) THEN Rejected(c1, "invalid email address")
        ELSE [c1 EXCEPT !.pc = "CheckDuplicate", !.email = email]

\* the error the existing user gives, "" when the request goes on
ExistingUserError(existingUser) ==
    IF existingUser.verified THEN "has already signed up"
    ELSE IF existingUser.id # 0 /\ ~existingUser.verified
    THEN "has already signed up. please complete the email verification process or reset the password"
    ELSE ""

\* which kinds of row the users table holds for an e-mail
Held(rows, email) ==
    {k \in {"verified", "unverified"} :
        \E i \in 1..Len(rows) :
            rows[i].email = email /\ rows[i].verified = (k = "verified")}

\* the roles of the new user: the requested ones when allowed, else the default
\* ones; err is "" or the error returned
ResolveRolesUnchecked(reqRoles, rolesRead, defaultRead) ==
    IF Len(reqRoles) > 0
    THEN IF rolesRead.err THEN [err |-> "unavailable", roles |-> <<>>]
         ELSE [err |-> "", roles |-> RoleStrings(reqRoles)]
    ELSE IF defaultRead.err THEN [err |-> "unavailable", roles |-> <<>>]
         ELSE [err |-> "", roles |-> Split(defaultRead.val)]

\* the role resolution: the requested roles when they are all allowed, the
\* default roles when none is requested
ResolveRoles(reqRoles, rolesRead, defaultRead) ==
    IF Len(reqRoles) > 0
    THEN IF rolesRead.err THEN [err |-> "unavailable", roles |-> <<>>]
         ELSE IF ~IsValidRoles(RoleStrings(reqRoles), Split(rolesRead.val))
         THEN [err |-> "invalid roles", roles |-> <<>>]
         ELSE [err |-> "", roles |-> RoleStrings(reqRoles)]
    ELSE IF defaultRead.err THEN [err |-> "unavailable", roles |-> <<>>]
         ELSE [err |-> "", roles |-> Split(defaultRead.val)]

\* the duplicate check and the role resolution
CheckDuplicate(call, found, resolved) ==
    IF ExistingUserError(found.user) # "" THEN Rejected(call, ExistingUserError(found.user))
    ELSE IF resolved.err # "" THEN Rejected(call, resolved.err)
    ELSE [call EXCEPT !.pc = "Persist",
                      !.user = [NoUser EXCEPT !.email = call.email,
                                              !.roles = Join(resolved.roles)]]

\* user.AsAPIUser(): the public projection
AsAPIUser(user) == user

\* the clamp written with < in place of <=; C2 tells it from ExpiresIn
ExpiresInStrict(expiresAt, now) ==
    LET expiresIn == expiresAt - now
    IN  IF expiresIn < 0 THEN 1 ELSE expiresIn

\* ExpiresIn: authToken.AccessToken.ExpiresAt - time.Now().Unix(), 1 when <= 0
ExpiresIn(expiresAt, now) ==
    LET expiresIn == expiresAt - now
    IN  IF expiresIn <= 0 THEN 1 ELSE expiresIn

\* token.CreateAuthToken: the fingerprint, its hash, the access token and, when
\* the scope asks for offline access, the refresh token
CreateAuthToken(user, offline, expiresAt) ==
    [FingerPrint |-> <<"fp", user.id>>,
     FingerPrintHash |-> <<"hash", "fp", user.id>>,
     AccessToken |-> [Token |-> <<"access", user.id>>, ExpiresAt |-> expiresAt],
     RefreshToken |-> IF offline THEN <<"refresh", user.id>> ELSE <<>>]

\* token.CreateVerificationToken: signed over the e-mail, the type and the nonce
CreateVerificationToken(email, verificationType, nonce) == <<"verify", email, verificationType, nonce>>

\* db.Provider.AddVerificationRequest: the row replaces the live request of the
\* same e-mail and identifier
AddVerificationRequest(table, vr) ==
    {v \in table : ~(v.Email = vr.Email /\ v.Identifier = vr.Identifier)} \cup {vr}

\* an audit row that names no owner
AddSessionUnowned(table, id, uid) == table \cup {[id |-> id, user_id |-> 0]}

\* db.Provider.AddSession: one audit row with a new id
AddSession(table, id, uid) == table \cup {[id |-> id, user_id |-> uid]}

\* the webhook events of a signup
UserCreatedWebhookEvent == "user.created"
UserSignUpWebhookEvent == "user.signup"

\* utils.RegisterEvent(ctx, eventName, authRecipe, user): the event is handed
\* to the webhook collaborator
RegisterEvent(table, eventName, uid) == table \cup {[event |-> eventName, uid |-> uid]}

\* memorystore.Provider.SetUserSession(key, field, value)
SetUserSession(mem, key, field, value) ==
    {e \in mem : ~(e.key = key /\ e.field = field)} \cup {[key |-> key, field |-> field, value |-> value]}

\* sessionstore.SetState(key, value)
SetState(mem, key, value) == SetUserSession(mem, key, <<>>, value)

\* the token types SetUserSession registers
TokenTypes == {"session_token", "access_token", "refresh_token"}

\* how the registrations of one request can go: each succeeds, or the session
\* store is unavailable and each returns an error
RegistrationFailures == {{}, TokenTypes}

\* the three registrations of the memorystore build; failed holds the token
\* types whose SetUserSession returns an error, which the resolver does not read
RegisterSession(mem, user, authToken, failed) ==
    LET sessionKey == <<AuthRecipeMethodBasicAuth, ":", user.id>>
        m1 == IF "session_token" \in failed THEN mem
              ELSE SetUserSession(mem, sessionKey, <<"session_token", "_">> \o authToken.FingerPrint,
                                  authToken.FingerPrintHash)
        m2 == IF "access_token" \in failed THEN m1
              ELSE SetUserSession(m1, sessionKey, <<"access_token", "_">> \o authToken.FingerPrint,
                                  authToken.AccessToken.Token)
    IN  IF authToken.RefreshToken # <<>> /\ "refresh_token" \notin failed
        THEN SetUserSession(m2, sessionKey, <<"refresh_token", "_">> \o authToken.FingerPrint,
                            authToken.RefreshToken)
        ELSE m2

\* ------------------------------------------------------------------ actions
Init ==
    /\ build \in Builds
    /\ env \in [FlagKeys -> BOOLEAN]
    /\ users = <<>>
    /\ nextID = 1
    /\ vreqs = {}
    /\ sessions = {}
    /\ nextSession = 1
    /\ store = {}
    /\ tasks = {}
    /\ events = {}
    /\ calls = [c \in Calls |-> IdleCall]
    /\ ret = NoRet

\* an operator changes the verification flag while requests are served
UpdateEnv(key) ==
    /\ env' = [env EXCEPT ![key] = ~env[key]]
    /\ ret' = NoRet
    /\ UNCHANGED <<build, users, nextID, vreqs, sessions, nextSession, store, tasks, calls, events>>

\* the request c goes on as call, or returns: the response goes to the caller
\* and the slot is free for the next request
Continue(c, call) ==
    IF call.pc = "Done"
    THEN /\ calls' = [calls EXCEPT ![c] = IdleCall]
         /\ ret' = [NoRet EXCEPT !.op = "Signup", !.call = call, !.err = call.err]
    ELSE /\ calls' = [calls EXCEPT ![c] = call]
         /\ ret' = NoRet

\* Signup, from the flag gates to the e-mail validation; what the resolver
\* does not get to read after a failure is not drawn
SignupValidate(c) ==
    /\ calls[c].pc = "idle"
    /\ \E ginFails \in BOOLEAN :
       \E f1 \in (IF ginFails THEN {FALSE} ELSE ReadFails) :
       \E f2 \in (IF ginFails \/ f1 THEN {FALSE} ELSE ReadFails) :
       \E params \in (IF ginFails \/ f1 \/ f2 THEN {CHOOSE p \in SignUpInput : TRUE} ELSE SignUpInput) :
        Continue(c, ValidateInput(params, ginFails,
                        GetBoolStoreEnvVariable(EnvKeyDisableSignUp, f1),
                        GetBoolStoreEnvVariable(EnvKeyDisableBasicAuthentication, f2)))
    /\ UNCHANGED <<build, env, users, nextID, vreqs, sessions, nextSession, store, tasks, events>>

\* a lookup step that writes the user row before the request is let through
SignupCheckDuplicatePersisting(c, roleInputs) ==
    /\ calls[c].pc = "CheckDuplicate"
    /\ \E roles \in roleInputs, lookupFails \in BOOLEAN, f1 \in ReadFails, f2 \in ReadFails :
        Continue(c, CheckDuplicate([calls[c] EXCEPT !.roles = roles],
                        GetUserByEmail(users, calls[c].email, lookupFails),
                        ResolveRoles(roles,
                                     GetStringStoreEnvVariable(EnvRoles, f1),
                                     GetStringStoreEnvVariable(EnvDefaultRoles, f2))))
    /\ users' = Append(users, [NoUser EXCEPT !.id = nextID, !.email = calls[c].email])
    /\ UNCHANGED <<build, env, nextID, vreqs, sessions, nextSession, store, tasks, events>>

\* Signup, the lookup of the existing user and the roles
SignupCheckDuplicateWith(c, roleInputs) ==
    /\ calls[c].pc = "CheckDuplicate"
    /\ \E roles \in roleInputs, lookupFails \in BOOLEAN, f1 \in ReadFails, f2 \in ReadFails :
        Continue(c, CheckDuplicate([calls[c] EXCEPT !.roles = roles],
                        GetUserByEmail(users, calls[c].email, lookupFails),
                        ResolveRoles(roles,
                                     GetStringStoreEnvVariable(EnvRoles, f1),
                                     GetStringStoreEnvVariable(EnvDefaultRoles, f2))))
    /\ UNCHANGED <<build, env, users, nextID, vreqs, sessions, nextSession, store, tasks, events>>

SignupCheckDuplicate(c) == SignupCheckDuplicateWith(c, RoleInputs)

\* the same step of Signup, for requests with every kind of role list
SignupResolveRoles(c) == SignupCheckDuplicateWith(c, AllRoleInputs)

\* Signup, the read of the verification flag and db.Provider.AddUser
SignupPersist(c) ==
    /\ calls[c].pc = "Persist"
    /\ nextID <= MaxUsers
    /\ \E f \in ReadFails, execFails \in BOOLEAN, pos \in 1..(Len(users) + 1) :
        LET call == calls[c]
            r == GetBoolStoreEnvVariable(EnvKeyDisableEmailVerification, f)
            user == [call.user EXCEPT !.verified = IsEmailVerificationDisabled(r)]
            a == AddUser(users, user, nextID, pos, FALSE, execFails)
            c1 == [call EXCEPT !.rdEvd = ReadAs(r),
                               !.roles = <<>>,
                               !.cfg = <<env[EnvKeyDisableEmailVerification]>>,
                               !.user = a.user]
        IN  /\ users' = a.rows
            /\ Continue(c, IF a.err # "" THEN Rejected(c1, a.err) ELSE [c1 EXCEPT !.pc = "Branch"])
    /\ nextID' = nextID + 1
    /\ UNCHANGED <<build, env, vreqs, sessions, nextSession, store, tasks, events>>

VerifyOutcomes == {"ok", "nonceErr", "tokenErr", "addErr"}
AuthOutcomes == {"ok", "authTokenErr"}

\* the verification branch: the nonce, the token, the verification request,
\* the detached mail goroutine and the "check your inbox" response
IssueVerification(c, call, outcome, taskKind) ==
    LET vr == [Token |-> CreateVerificationToken(call.email, VerificationTypeBasicAuthSignup, call.user.id),
               Identifier |-> VerificationTypeBasicAuthSignup,
               Email |-> call.email]
    IN  IF outcome = "nonceErr"
        THEN /\ Continue(c, Rejected(call, "nonce"))
             /\ UNCHANGED <<vreqs, tasks>>
        ELSE IF outcome = "tokenErr"
        THEN /\ Continue(c, Rejected(call, "verification token"))
             /\ UNCHANGED <<vreqs, tasks>>
        ELSE IF outcome = "addErr"
        THEN /\ Continue(c, Rejected(call, "unavailable"))
             /\ UNCHANGED <<vreqs, tasks>>
        ELSE /\ vreqs' = AddVerificationRequest(vreqs, vr)
             /\ tasks' = tasks \cup {[kind |-> taskKind, uid |-> call.user.id]}
             /\ Continue(c, Returned(call, [NilResponse EXCEPT
                            !.nil = FALSE,
                            !.Message = "Verification email has been sent. Please check your inbox",
                            !.User = AsAPIUser(call.user)]))

\* the response of the authenticated branch
AuthResponse(call, authToken, expiresIn, withRefresh) ==
    [nil |-> FALSE, Message |-> "Signed up successfully.",
     AccessToken |-> authToken.AccessToken.Token,
     RefreshToken |-> IF withRefresh THEN authToken.RefreshToken ELSE <<>>,
     ExpiresIn |-> expiresIn, User |-> AsAPIUser(call.user),
     Cookie |-> authToken.FingerPrintHash]

\* Signup of the memorystore build after AddUser: the branch is taken on the
\* local isEmailVerificationDisabled, which is what the user was stamped with
SignupBranchMemorystore(c) ==
    /\ build = "memorystore"
    /\ calls[c].pc = "Branch"
    /\ LET call == calls[c]
           isEmailVerificationDisabled == call.user.verified
       IN  IF ~isEmailVerificationDisabled
           THEN /\ \E outcome \in VerifyOutcomes : IssueVerification(c, call, outcome, "mail+event")
                /\ UNCHANGED store
           ELSE \E outcome \in AuthOutcomes, offline \in BOOLEAN, expiresAt \in Times, now \in Times,
                   failed \in RegistrationFailures :
                   LET authToken == CreateAuthToken(call.user, offline, expiresAt)
                       c1 == [call EXCEPT !.expiresAt = expiresAt, !.now = now, !.regFailed = failed]
                   IN  IF outcome = "authTokenErr"
                       THEN /\ Continue(c, Rejected(call, "auth token"))
                            /\ UNCHANGED <<vreqs, tasks, store>>
                       ELSE /\ Continue(c, Returned(c1, AuthResponse(call, authToken,
                                                   ExpiresIn(authToken.AccessToken.ExpiresAt, now), TRUE)))
                            /\ store' = RegisterSession(store, call.user, authToken, failed)
                            /\ tasks' = tasks \cup {[kind |-> "event+session", uid |-> call.user.id]}
                            /\ UNCHANGED vreqs
    /\ UNCHANGED <<build, env, users, nextID, sessions, nextSession, events>>

\* Signup of the envstore build after AddUser: the flag is read again
SignupBranchEnvstore(c) ==
    /\ build = "envstore"
    /\ calls[c].pc = "Branch"
    /\ LET call == [calls[c] EXCEPT !.cfg = Append(@, env[EnvKeyDisableEmailVerification])]
       IN  IF ~env[EnvKeyDisableEmailVerification]
           THEN /\ \E outcome \in VerifyOutcomes : IssueVerification(c, call, outcome, "mail")
                /\ UNCHANGED store
           ELSE \E outcome \in AuthOutcomes, offline \in BOOLEAN, expiresAt \in Times, now \in Times :
                   LET authToken == CreateAuthToken(call.user, offline, expiresAt)
                       c1 == [call EXCEPT !.expiresAt = expiresAt, !.now = now]
                   IN  IF outcome = "authTokenErr"
                       THEN /\ Continue(c, Rejected(call, "auth token"))
                            /\ UNCHANGED <<vreqs, tasks, store>>
                       ELSE /\ store' = SetState(store, authToken.FingerPrintHash,
                                                 authToken.FingerPrint \o <<"@", call.user.id>>)
                            /\ tasks' = tasks \cup {[kind |-> "session", uid |-> call.user.id]}
                            /\ Continue(c, Returned(c1, AuthResponse(call, authToken,
                                                   ExpiresIn(authToken.AccessToken.ExpiresAt, now), FALSE)))
                            /\ UNCHANGED vreqs
    /\ UNCHANGED <<build, env, users, nextID, sessions, nextSession, events>>

\* a goroutine whose failure comes back as the error of the Signup; C16 tells
\* it from RunTask
RunTaskSurfaced(t) ==
    /\ t \in tasks
    /\ tasks' = tasks \ {t}
    /\ ret' = [NoRet EXCEPT !.op = "Signup", !.err = "unavailable"]
    /\ UNCHANGED <<build, env, users, nextID, vreqs, sessions, nextSession, store, events, calls>>

\* a detached goroutine runs: the mail changes no table, utils.RegisterEvent
\* hands the event to the webhook collaborator, db.Provider.AddSession appends
\* the audit row unless the insert fails; no result is read
RunTask(t) ==
    /\ t \in tasks
    /\ tasks' = tasks \ {t}
    /\ events' = IF t.kind = "mail+event" THEN RegisterEvent(events, UserCreatedWebhookEvent, t.uid)
                 ELSE IF t.kind = "event+session" THEN RegisterEvent(events, UserSignUpWebhookEvent, t.uid)
                 ELSE events
    /\ IF t.kind \in {"event+session", "session"}
       THEN \E insertFails \in BOOLEAN :
               IF insertFails \/ nextSession > MaxSessions
               THEN UNCHANGED <<sessions, nextSession>>
               ELSE /\ sessions' = AddSession(sessions, nextSession, t.uid)
                    /\ nextSession' = nextSession + 1
       ELSE UNCHANGED <<sessions, nextSession>>
    /\ ret' = NoRet
    /\ UNCHANGED <<build, env, users, nextID, vreqs, store, calls>>

Next ==
    \/ UpdateEnv(EnvKeyDisableEmailVerification)
    \/ \E c \in Calls : SignupValidate(c)
    \/ \E c \in Calls : SignupCheckDuplicate(c)
    \/ \E c \in Calls : SignupPersist(c)
    \/ \E c \in Calls : SignupBranchMemorystore(c)
    \/ \E c \in Calls : SignupBranchEnvstore(c)
    \/ \E t \in tasks : RunTask(t)

Spec == Init /\ [][Next]_vars

\* Signup up to the persisted user row, for requests with every kind of role list
NextRoles ==
    \/ \E c \in Calls : SignupValidate(c)
    \/ \E c \in Calls : SignupResolveRoles(c)
    \/ \E c \in Calls : SignupPersist(c)

SpecRoles == Init /\ [][NextRoles]_vars

\* the detached goroutines a Signup can start
TaskKinds == {"mail+event", "event+session", "mail", "session"}
Tasks == [kind : TaskKinds, uid : 1..MaxUsers]

\* the Go scheduler runs every goroutine that is started
SpecFair == Spec /\ \A t \in Tasks : WF_vars(RunTask(t))

\* ------------------------------------------- the provider called on its own
\* the e-mails of the users a caller hands to the provider
ProviderEmails == {"a@x.io", "b@x.io"}

\* db.Provider.AddUser(ctx, user) called with a new user, or with the ID of a
\* user the table holds; what AddUser does not get to after a failure is not
\* drawn. cancelled says that ctx was cancelled while the call was in flight:
\* the provider takes ctx and hands it to no query
CallAddUser ==
    /\ \E id \in {0} \cup {users[i].id : i \in 1..Len(users)}, email \in ProviderEmails,
          verified \in BOOLEAN, roles \in {EmptyString, <<"user">>}, cancelled \in BOOLEAN :
       \E rolesFail \in (IF roles = EmptyString THEN BOOLEAN ELSE {FALSE}) :
       \E execFails \in (IF rolesFail THEN {FALSE} ELSE BOOLEAN) :
       \E pos \in (IF rolesFail \/ execFails \/ id # 0 THEN {1} ELSE 1..(Len(users) + 1)) :
        LET user == [id |-> id, email |-> email, verified |-> verified, roles |-> roles]
            a == AddUser(users, user, nextID, pos, rolesFail, execFails)
        IN  /\ id = 0 => nextID <= MaxUsers
            /\ users' = a.rows
            /\ nextID' = IF id = 0 THEN nextID + 1 ELSE nextID
            /\ ret' = [NoRet EXCEPT !.op = "AddUser", !.user = a.user, !.err = a.err,
                                    !.outcome = IF execFails \/ a.err # "" THEN "execErr" ELSE "ok",
                                    !.applied = (a.rows # users),
                                    !.taken = ("verified" \in Held(users, email)),
                                    !.cancelled = cancelled]
    /\ UNCHANGED <<build, env, vreqs, sessions, nextSession, store, tasks, calls, events>>

\* db.Provider.UpdateUser(ctx, user) with the ID of a user of the table, or
\* with the ID of a user deleted before
CallUpdateUser ==
    /\ \E id \in 1..(nextID - 1), email \in ProviderEmails, verified \in BOOLEAN,
          execFails \in BOOLEAN, cancelled \in BOOLEAN :
       \E pos \in (IF execFails \/ (\E i \in 1..Len(users) : users[i].id = id)
                   THEN {1} ELSE 1..(Len(users) + 1)) :
        LET user == [id |-> id, email |-> email, verified |-> verified, roles |-> <<"user">>]
            u == UpdateUser(users, user, pos, execFails)
        IN  /\ users' = u.rows
            /\ ret' = [NoRet EXCEPT !.op = "UpdateUser", !.user = u.user, !.err = u.err,
                                    !.outcome = IF execFails THEN "execErr" ELSE "ok",
                                    !.existed = (\E i \in 1..Len(users) : users[i].id = id),
                                    !.grew = (Len(u.rows) > Len(users)),
                                    !.cancelled = cancelled]
    /\ UNCHANGED <<build, env, nextID, vreqs, sessions, nextSession, store, tasks, calls, events>>

\* db.Provider.AddSession(ctx, session) for a user of the table
CallAddSession ==
    /\ nextSession <= MaxSessions
    /\ \E i \in 1..Len(users) : sessions' = AddSession(sessions, nextSession, users[i].id)
    /\ nextSession' = nextSession + 1
    /\ ret' = NoRet
    /\ UNCHANGED <<build, env, users, nextID, vreqs, store, tasks, calls, events>>

\* db.Provider.DeleteUser(ctx, user) for a user of the table
CallDeleteUser ==
    /\ \E i \in 1..Len(users), outcome \in DeleteOutcomes, cancelled \in BOOLEAN :
        \E scanned \in Scanned(sessions, users[i].id, outcome) :
            LET user == users[i]
                d == DeleteUser(users, sessions, user, outcome, scanned)
            IN  /\ outcome = "scanErr" => SessionIDsOf(sessions, user.id) # {}
                /\ users' = d.rows
                /\ sessions' = d.sessions
                /\ ret' = [NoRet EXCEPT
                            !.op = "DeleteUser", !.user = user, !.outcome = outcome, !.err = d.err,
                            !.userGone = (\A j \in 1..Len(d.rows) : d.rows[j].id # user.id),
                            !.had = SessionIDsOf(sessions, user.id),
                            !.left = SessionIDsOf(d.sessions, user.id),
                            !.othersSame = ({t \in d.sessions : t.user_id # user.id}
                                              = {t \in sessions : t.user_id # user.id}),
                            !.cancelled = cancelled]
    /\ UNCHANGED <<build, env, nextID, vreqs, nextSession, store, tasks, calls, events>>

InitProvider ==
    /\ Init
    /\ build = "memorystore"
    /\ env = [k \in FlagKeys |-> FALSE]

NextProvider ==
    \/ CallAddUser
    \/ CallUpdateUser
    \/ CallAddSession
    \/ CallDeleteUser

SpecProvider == InitProvider /\ [][NextProvider]_vars

\* ------------------------------------- DeleteUser and the detached insert
\* a table of users that signed up before, their detached inserts run or not yet
InitCascade ==
    /\ build = "memorystore"
    /\ env = [k \in FlagKeys |-> FALSE]
    /\ users = [i \in 1..MaxUsers |->
                    [id |-> i, email |-> "a@x.io", verified |-> TRUE, roles |-> EnvDefaultRoles]]
    /\ nextID = MaxUsers + 1
    /\ vreqs = {}
    /\ sessions = {}
    /\ nextSession = 1
    /\ store = {}
    /\ tasks = {}
    /\ events = {}
    /\ calls = [c \in Calls |-> IdleCall]
    /\ ret = NoRet

\* the go statement at the end of the authenticated branch, for a user of the
\* table: the insert of the audit row is detached and the request goes on
GoAddSession ==
    /\ nextSession + Cardinality(tasks) <= MaxSessions
    /\ \E i \in 1..Len(users) :
        /\ [kind |-> "event+session", uid |-> users[i].id] \notin tasks
        /\ tasks' = tasks \cup {[kind |-> "event+session", uid |-> users[i].id]}
    /\ ret' = NoRet
    /\ UNCHANGED <<build, env, users, nextID, vreqs, sessions, nextSession, store, calls, events>>

NextCascade ==
    \/ GoAddSession
    \/ \E t \in tasks : RunTask(t)
    \/ CallDeleteUser

SpecCascade == InitCascade /\ [][NextCascade]_vars

\* the Go runtime schedules every goroutine that was started
SpecCascadeFair == SpecCascade /\ \A t \in Tasks : WF_vars(RunTask(t))

\* ------------------------------------------------- ListUsers as a function
\* the users tables ListUsers pages over: up to MaxListUsers rows in store order
ListTables ==
    UNION {{[i \in 1..n |-> [id |-> i, email |-> e[i], verified |-> TRUE, roles |-> <<"user">>]] :
                e \in [1..n -> ProviderEmails]} : n \in 0..MaxListUsers}

\* the tables AddUser has filled, one row per id
InitList ==
    /\ build = "memorystore"
    /\ env = [k \in FlagKeys |-> FALSE]
    /\ users \in ListTables
    /\ nextID = Len(users) + 1
    /\ vreqs = {}
    /\ sessions = {}
    /\ nextSession = 1
    /\ store = {}
    /\ tasks = {}
    /\ events = {}
    /\ calls = [c \in Calls |-> IdleCall]
    /\ ret = NoRet

\* db.Provider.ListUsers(ctx, pagination)
CallListUsers ==
    /\ \E limit \in 0..MaxLimit, offset \in 0..MaxOffset :
        LET l == ListUsers(users, limit, offset)
        IN  ret' = [NoRet EXCEPT !.op = "ListUsers", !.page = l.Users, !.total = l.Total,
                                 !.limit = l.Limit, !.offset = l.Offset]
    /\ UNCHANGED <<build, env, users, nextID, vreqs, sessions, nextSession, store, tasks, calls, events>>

NextList == CallListUsers

SpecList == InitList /\ [][NextList]_vars

\* ------------------------------------------------------------------ claims
SignupDisabled == "signup is disabled for this instance"
BasicAuthDisabled == "basic authentication is disabled for this instance"

\* C1: a Signup whose read of the signup-disabled flag or of the
\* basic-authentication-disabled flag fails returns the Disabled error from its
\* first step, with a nil response, and no request is ever past the gates (at
\* the duplicate check, the user creation or the token issuance) after a read
\* of either flag failed.
C1_FailClosedGates ==
    /\ \A c \in Calls : calls[c].rdSignup # "err" /\ calls[c].rdBasic # "err"
    /\ (ret.op = "Signup" /\ (ret.call.rdSignup = "err" \/ ret.call.rdBasic = "err")) =>
            /\ ret.err = (IF ret.call.rdSignup = "err" THEN SignupDisabled ELSE BasicAuthDisabled)
            /\ ret.call.at = "Validate"
            /\ ret.call.res = NilResponse
            /\ ret.call.user = NoUser

\* C1 witness: a Signup returned after its read of the basic-authentication
\* flag failed, the signup flag read as enabled
C1_Witness ==
    /\ ret.op = "Signup"
    /\ ret.call.rdSignup = "false"
    /\ ret.call.rdBasic = "err"
    /\ ret.err = BasicAuthDisabled

AlreadySignedUp == "has already signed up"
VerificationPending ==
    "has already signed up. please complete the email verification process or reset the password"

\* the verification flag was read, and as r at every read of the returned call
FlagReadAs(r) ==
    /\ ret.op = "Signup"
    /\ ret.call.cfg # <<>>
    /\ \A i \in 1..Len(ret.call.cfg) : ret.call.cfg[i] = r

\* C2: a Signup that got past validation and the duplicate check and found
\* email verification disabled returns, unless AddUser or the token creation
\* failed, a response with a non-empty access token and
\* expiresIn = max(1, accessTokenExpiry - now), which is at least 1 for every
\* expiry and clock, expiry <= now included.
C2_TokensWhenVerificationDisabled ==
    FlagReadAs(TRUE) =>
        /\ ret.err \in {"", "unavailable", "auth token"}
        /\ ret.err = "" =>
            /\ ~ret.call.res.nil
            /\ ret.call.res.AccessToken # <<>>
            /\ ret.call.res.ExpiresIn = Max(1, ret.call.expiresAt - ret.call.now)
            /\ ret.call.res.ExpiresIn >= 1

\* C2 witness: a Signup returned its tokens with the access token expiring at
\* the very instant of the clock
C2_Witness ==
    /\ FlagReadAs(TRUE)
    /\ ret.err = ""
    /\ ret.call.expiresAt = ret.call.now
    /\ ret.call.res.AccessToken # <<>>
    /\ ret.call.res.ExpiresIn = 1

\* the verification requests outstanding for an e-mail and the signup type
RequestsFor(email) ==
    {v \in vreqs : v.Email = email /\ v.Identifier = VerificationTypeBasicAuthSignup}

\* C3: a Signup with valid input and email verification enabled returns a
\* response with no access token and no refresh token, and when it has
\* returned exactly one VerificationRequest exists for the pair (email,
\* basic-auth-signup type).
C3_VerificationEnabled ==
    (FlagReadAs(FALSE) /\ ret.err = "") =>
        /\ ret.call.res.AccessToken = <<>>
        /\ ret.call.res.RefreshToken = <<>>
        /\ Cardinality(RequestsFor(ret.call.email)) = 1

\* C3, the case that holds: the flag read as enabled without error
C3_Witness ==
    /\ FlagReadAs(FALSE)
    /\ ret.call.rdEvd = "false"
    /\ ret.err = ""
    /\ ret.call.res.AccessToken = <<>>
    /\ Cardinality(RequestsFor(ret.call.email)) = 1

\* C4: a Signup that looks up an e-mail the users table holds a verified record
\* for returns AlreadySignedUp, one for an e-mail with an unverified record
\* returns VerificationPending, and the step leaves the users table as it is:
\* the request does not go on to AddUser.
C4_DuplicateEmail ==
    [][\A c \in Calls :
        (calls[c].pc = "CheckDuplicate" /\ calls'[c] # calls[c]
            /\ Held(users, calls[c].email) # {}) =>
                /\ ret'.op = "Signup"
                /\ ret'.call.email = calls[c].email
                /\ "verified" \in Held(users, calls[c].email) \/ ret'.err = VerificationPending
                /\ "unverified" \in Held(users, calls[c].email) \/ ret'.err = AlreadySignedUp
                /\ ret'.err \in {AlreadySignedUp, VerificationPending}
                /\ users' = users]_vars

\* C4, the case that holds: the lookup found the verified record
C4_Witness ==
    /\ ret.op = "Signup"
    /\ ret.err = AlreadySignedUp
    /\ Held(users, ret.call.email) = {"verified"}

\* C5: in every reachable state, after any interleaving of concurrent Signup
\* calls for the same e-mail, the users table holds at most one verified user
\* per e-mail.
C5_OneVerifiedPerEmail ==
    \A i \in 1..Len(users), j \in 1..Len(users) :
        (users[i].email = users[j].email /\ users[i].verified /\ users[j].verified) => i = j

\* C6: every unverified user record has an outstanding VerificationRequest for
\* its e-mail, unless the Signup that created it has not returned yet (it is
\* between AddUser and the verification branch).
C6_UnverifiedHasRequest ==
    \A i \in 1..Len(users) :
        ~users[i].verified =>
            \/ RequestsFor(users[i].email) # {}
            \/ \E c \in Calls : calls[c].pc = "Branch" /\ calls[c].user.id = users[i].id

\* C7: when the enumeration or the delete of the user's Session rows fails,
\* DeleteUser returns an error and the user record is still in the table.
C7_SessionsBeforeUser ==
    (ret.op = "DeleteUser" /\ ret.outcome \in {"scanErr", "iterErr", "deleteSessionsErr"}) =>
        /\ ret.err # ""
        /\ ~ret.userGone

\* C8: after DeleteUser(user) returned success the user record is absent, no
\* Session row of that user remains, however many it owned, and the Session
\* rows of other users are unchanged.
C8_CascadeOnSuccess ==
    (ret.op = "DeleteUser" /\ ret.err = "") =>
        /\ ret.userGone
        /\ ret.left = {}
        /\ ret.othersSame

\* C8, the case that holds: every query succeeded and the user's two Session
\* rows are gone
C8_Witness ==
    /\ ret.op = "DeleteUser"
    /\ ret.outcome = "ok"
    /\ Cardinality(ret.had) = 2
    /\ ret.userGone
    /\ ret.left = {}

C10_ConflictSurfaced ==
    (ret.op = "AddUser" /\ ret.outcome = "ok" /\ (~ret.applied \/ ret.taken)) =>
        ret.err = "conflict"

\* C11: UpdateUser(user) with an ID no record of the table has returns NotFound
\* and the table gains no record.
C11_UpdateAbsentIsNotFound ==
    (ret.op = "UpdateUser" /\ ret.outcome = "ok" /\ ~ret.existed) =>
        /\ ret.err = "not found"
        /\ ~ret.grew

\* C11, the case that holds: the update of a record of the table changes that
\* record and adds none
C11_Witness ==
    /\ ret.op = "UpdateUser"
    /\ ret.existed
    /\ ret.err = ""
    /\ ~ret.grew
    /\ \E i \in 1..Len(users) : users[i] = ret.user

\* the returned call handed out tokens
ReturnedTokens ==
    /\ ret.op = "Signup"
    /\ ret.err = ""
    /\ ret.call.res.AccessToken # <<>>

\* the entries of the session store under <authMethod>:<userID> of the returned
\* call's user whose field starts with the token type
CacheEntries(tokenType) ==
    {e \in store : /\ e.key = <<AuthRecipeMethodBasicAuth, ":", ret.call.user.id>>
                   /\ e.field # <<>>
                   /\ e.field[1] = tokenType}

\* C12: when a Signup returns tokens, the session store holds under
\* <authMethod>:<userID> the session token entry and the access token entry
\* with the values of the response, and a refresh token entry exactly when the
\* response carries a refresh token; the Session audit insert is still a
\* pending detached task, no audit row of the user is written yet.
C12_CacheBeforeResponse ==
    ReturnedTokens =>
        /\ \E e \in CacheEntries("session_token") : e.value = ret.call.res.Cookie
        /\ \E e \in CacheEntries("access_token") : e.value = ret.call.res.AccessToken
        /\ (ret.call.res.RefreshToken # <<>>) <=>
                (\E e \in CacheEntries("refresh_token") : e.value = ret.call.res.RefreshToken)
        /\ \E t \in tasks : t.uid = ret.call.user.id /\ t.kind \in {"event+session", "session"}
        /\ SessionIDsOf(sessions, ret.call.user.id) = {}

\* C12, the case that holds: the memorystore build with every registration
\* succeeding, the response carrying a refresh token
C12_Witness ==
    /\ ReturnedTokens
    /\ build = "memorystore"
    /\ ret.call.regFailed = {}
    /\ ret.call.res.RefreshToken # <<>>
    /\ \E e \in CacheEntries("refresh_token") : e.value = ret.call.res.RefreshToken
    /\ \E e \in CacheEntries("access_token") : e.value = ret.call.res.AccessToken
    /\ SessionIDsOf(sessions, ret.call.user.id) = {}

\* C13: a Signup whose AddUser fails, or one of whose registrations in the
\* session store fails, returns the Unavailable error and no response with
\* tokens.
C13_WriteFailuresFatal ==
    ret.op = "Signup" =>
        /\ (ret.call.at = "Persist" /\ ret.err # "") =>
                (ret.err = "unavailable" /\ ret.call.res = NilResponse)
        /\ ret.call.regFailed # {} =>
                (ret.err = "unavailable" /\ ret.call.res = NilResponse)

\* C13, the case that holds: AddUser failed and the Signup returned the error
\* with a nil response, the users table left without the user
C13_Witness ==
    /\ ret.op = "Signup"
    /\ ret.call.at = "Persist"
    /\ ret.err = "unavailable"
    /\ ret.call.res = NilResponse
    /\ \A i \in 1..Len(users) : users[i].id # ret.call.user.id

\* C14: every step in which a Signup returns an error, whatever the step,
\* returns the nil response (no access token, no refresh token, no cookie)
\* with that one error, and writes nothing to the session store.
C14_RejectedReturnsNothing ==
    [][(ret'.op = "Signup" /\ ret'.err # "") =>
            /\ ret'.call.res = NilResponse
            /\ ret'.call.res.AccessToken = <<>>
            /\ ret'.call.res.RefreshToken = <<>>
            /\ ret'.call.res.Cookie = <<>>
            /\ store' = store]_vars

\* C14 witness: a Signup was rejected at the token creation, after its user
\* was added, with the nil response and no entry of that user in the store
C14_Witness ==
    /\ ret.op = "Signup"
    /\ ret.err = "auth token"
    /\ ret.call.res = NilResponse
    /\ \E i \in 1..Len(users) : users[i].id = ret.call.user.id
    /\ \A e \in store : e.key # <<AuthRecipeMethodBasicAuth, ":", ret.call.user.id>>

\* a Signup for user u returned without error
Succeeded(u) == ret.op = "Signup" /\ ret.err = "" /\ ret.call.user.id = u

\* the events the webhook collaborator was handed for user u
EventsOf(u) == {e \in events : e.uid = u}

\* C15: every Signup that succeeds, in the verification-pending branch or in
\* the authenticated branch, is followed by a state in which one notification
\* event of its user has been handed to the webhook collaborator, the detached
\* goroutines being scheduled.
C15_EventuallyOneEvent ==
    \A u \in 1..MaxUsers : Succeeded(u) ~> (Cardinality(EventsOf(u)) = 1)

\* C15, the case that holds: the memorystore build has handed over the one
\* event of a user whose Signup took the verification branch
C15_Witness ==
    /\ build = "memorystore"
    /\ \E u \in 1..MaxUsers :
        /\ EventsOf(u) = {[event |-> UserCreatedWebhookEvent, uid |-> u]}
        /\ \E i \in 1..Len(users) : users[i].id = u /\ ~users[i].verified

\* C16: the step in which a background task ends, whatever its outcome,
\* returns nothing to any caller and changes no request in flight; a task is
\* started only by the step in which a Signup returns without error, one task
\* for the user of that Signup, so the response is fixed while the outcome of
\* the task is still open and no request runs the task again.
C16_BackgroundNotSurfaced ==
    [][/\ (tasks' # tasks /\ tasks' \subseteq tasks) => (ret' = NoRet /\ calls' = calls)
       /\ (tasks' \ tasks) # {} =>
            /\ ret'.op = "Signup"
            /\ ret'.err = ""
            /\ tasks' \ tasks \in {{[kind |-> k, uid |-> ret'.call.user.id]} : k \in TaskKinds}
            /\ tasks \subseteq tasks']_vars

\* C16 witness: the goroutine of an authenticated signup of the memorystore
\* build has run, its event is out, its Session insert failed, and no call
\* returned from that step
C16_Witness ==
    /\ ret = NoRet
    /\ \E u \in 1..MaxUsers :
        /\ [event |-> UserSignUpWebhookEvent, uid |-> u] \in events
        /\ SessionIDsOf(sessions, u) = {}
        /\ \A t \in tasks : t.uid # u

\* C17: a provider call (AddUser, UpdateUser, DeleteUser) whose context is
\* cancelled while it is in flight is aborted and returns the cancellation
\* outcome.
C17_CancellationAborts ==
    (ret.op \in {"AddUser", "UpdateUser", "DeleteUser"} /\ ret.cancelled) =>
        ret.err = "context canceled"

\* a call whose context was cancelled in flight ran to its end and wrote
C17_Witness ==
    /\ ret.op = "AddUser"
    /\ ret.cancelled
    /\ ret.err = ""
    /\ ret.applied

\* the roles a stored roles string stands for
RolesOf(user) == Split(user.roles)

\* the requested roles are not all in the configured allowed set
NotAllAllowed(reqRoles) == ~IsValidRoles(RoleStrings(reqRoles), Split(EnvRoles))

\* the role resolution of request c ran in this step: the lookup let the request through
ResolvedRoles(c) ==
    /\ calls[c].pc = "CheckDuplicate"
    /\ calls'[c] # calls[c]
    /\ ret'.err \notin {AlreadySignedUp, VerificationPending}

\* the user row request c persisted in this step
Persisted(c, row) ==
    /\ calls[c].pc = "Persist"
    /\ calls'[c].pc = "Branch"
    /\ row \in Range(users') \ Range(users)
    /\ row.id = calls'[c].user.id

C19_FailClosedVerification ==
    /\ \A c \in Calls : calls[c].rdEvd = "err" => ~calls[c].user.verified
    /\ (ret.op = "Signup" /\ ret.call.rdEvd = "err") =>
            /\ ~ret.call.user.verified
            /\ ret.call.res.AccessToken = <<>>
            /\ ret.call.res.RefreshToken = <<>>
            /\ ret.call.res.Cookie = <<>>

\* the read of the flag failed; the user is stored verified and holds tokens
C19_Witness ==
    /\ ret.op = "Signup"
    /\ ret.err = ""
    /\ ret.call.rdEvd = "err"
    /\ ret.call.res.AccessToken # <<>>
    /\ \E i \in 1..Len(users) : users[i].id = ret.call.user.id /\ users[i].verified

\* a Signup for user u returned the tokens of the authenticated branch
Authenticated(u) == Succeeded(u) /\ ret.call.res.AccessToken # <<>>

\* the detached goroutines that insert the audit row of user u and have not run
SessionTasksOf(u) == {t \in tasks : t.uid = u /\ t.kind \in {"event+session", "session"}}

\* audit rows come from the detached insert of an authenticated Signup only:
\* the goroutine is started by the step in which a Signup returns its tokens,
\* and a step that changes the sessions table is the run of such a goroutine,
\* appending one row owned by its user, the first row of that user
OnlyAuthenticatedAppends ==
    /\ \A t \in tasks' \ tasks :
            t.kind \in {"event+session", "session"} => Authenticated(t.uid)'
    /\ sessions' # sessions =>
            \E t \in tasks \ tasks' :
                /\ t.kind \in {"event+session", "session"}
                /\ SessionIDsOf(sessions, t.uid) = {}
                /\ \E row \in sessions' : /\ row.user_id = t.uid
                                          /\ sessions' = sessions \cup {row}

\* C20 as stated: every Signup that returns from the authenticated branch is
\* followed by a state in which the sessions table holds exactly one row owned
\* by its user, the detached goroutines being scheduled; a Signup that takes
\* the verification branch or is rejected appends none.
C20_EventuallyOneAuditRow ==
    /\ \A u \in 1..MaxUsers : Authenticated(u) ~> (Cardinality(SessionIDsOf(sessions, u)) = 1)
    /\ [][OnlyAuthenticatedAppends]_vars

\* C20 as the resolver does it: every Signup that returns from the
\* authenticated branch is followed by a state in which its detached insert
\* has run and the sessions table holds at most one row owned by its user: one
\* row when the insert went through, none when it failed, the result of the
\* insert being read by nobody; a Signup that takes the verification branch or
\* is rejected appends none.
C20_AuditRowUnlessInsertFails ==
    /\ \A u \in 1..MaxUsers :
            Authenticated(u) ~> /\ SessionTasksOf(u) = {}
                                /\ Cardinality(SessionIDsOf(sessions, u)) <= 1
    /\ [][OnlyAuthenticatedAppends]_vars

\* C20 witness: the detached insert of an authenticated user has run and the
\* sessions table holds the one row of that user, while the user of a Signup
\* that took the verification branch has none
C20_Witness ==
    \E u, v \in 1..MaxUsers :
        /\ Cardinality(SessionIDsOf(sessions, u)) = 1
        /\ SessionTasksOf(u) = {}
        /\ \E i \in 1..Len(users) :
                /\ users[i].id = v
                /\ ~users[i].verified
                /\ \E r \in vreqs : r.Email = users[i].email
        /\ SessionIDsOf(sessions, v) = {}
        /\ \A t \in tasks : t.uid # v

\* C21: in every Signup, the flag changing between the reads or not, the branch
\* taken after AddUser agrees with the stamp of the user: the verification
\* branch (its request, its mail, its errors) is taken for a user created
\* unverified only, and the authenticated branch (its tokens, its error) for a
\* user created verified only.
C21_BranchConsistency ==
    [][\A c \in Calls :
        (calls[c].pc = "Branch" /\ calls'[c] # calls[c]) =>
            /\ ret'.op = "Signup"
            /\ ret'.call.user = calls[c].user
            /\ (\/ vreqs' # vreqs
                \/ ret'.err \in {"nonce", "verification token", "unavailable"}) =>
                    ~calls[c].user.verified
            /\ (\/ ret'.call.res.AccessToken # <<>>
                \/ ret'.err = "auth token") =>
                    calls[c].user.verified]_vars

\* the flag was off at the first read and on at the second: the user is stored
\* unverified and holds tokens
C21_Witness ==
    /\ build = "envstore"
    /\ ret.op = "Signup"
    /\ ret.err = ""
    /\ ret.call.cfg = <<FALSE, TRUE>>
    /\ ret.call.res.AccessToken # <<>>
    /\ \E i \in 1..Len(users) : users[i].id = ret.call.user.id /\ ~users[i].verified

\* DeleteUser(user u) has just returned success
DeleteSucceeded(u) == ret.op = "DeleteUser" /\ ret.err = "" /\ ret.user.id = u

\* C22: from the state in which DeleteUser(user) returns success on, no Session
\* row owned by that user is in the sessions table, whenever the detached
\* insert of an earlier authenticated Signup of that user runs.
C22_NoOrphanedSessions ==
    \A u \in 1..MaxUsers : [](DeleteSucceeded(u) => [](SessionIDsOf(sessions, u) = {}))

\* the detached insert ran after every query of DeleteUser had succeeded: the
\* user is gone and owns a Session row
C22_Witness ==
    \E u \in 1..MaxUsers :
        /\ \A i \in 1..Len(users) : users[i].id # u
        /\ SessionIDsOf(sessions, u) # {}
        /\ [event |-> UserSignUpWebhookEvent, uid |-> u] \in events
        /\ ret = NoRet

\* C23: the step in which a Signup is rejected at the flag gates, the password
\* checks, the e-mail validation, the duplicate-email check or the role
\* resolution leaves the users table, the verification requests, the sessions
\* table and the session store as they were and starts no goroutine.
C23_EarlyRejectionFrame ==
    [][(/\ ret'.op = "Signup"
        /\ ret'.err # ""
        /\ ret'.call.at \in {"Validate", "CheckDuplicate"}) =>
            /\ users' = users
            /\ vreqs' = vreqs
            /\ sessions' = sessions
            /\ store' = store
            /\ tasks' = tasks
            /\ events' = events]_vars

\* C23 witness: a request for a role outside the allowed set was rejected
\* while the tables hold the user, the session entries and the pending
\* goroutine of an earlier Signup
C23_Witness ==
    /\ ret.op = "Signup"
    /\ ret.err = "invalid roles"
    /\ ret.call.at = "CheckDuplicate"
    /\ users # <<>>
    /\ store # {}
    /\ tasks # {}

====
